---- MODULE Spec2Model ----
(***************************************************************************)
(* Model of FileSequenceChecker (src/src/checkfileseq.py): splitting file  *)
(* names into (bare name, sequence number, extension, order), the natural  *)
(* sort of a directory's records, and the pairwise comparison that builds  *)
(* the report of missing files.                                            *)
(*                                                                         *)
(* A string is a sequence of one-character strings, so that the regular    *)
(* expressions of SPLITPAT and the %-formatting of comparefile are         *)
(* computed character by character.                                        *)
(***************************************************************************)
EXTENDS Integers, Sequences, FiniteSets, TLC

VARIABLES
    start, end,             \* self.start, self.end (None when not given)
    lastfilebarename,       \* self.lastfilebarename
    nextseqnum,             \* self.nextseqnum
    seqnumwidth,            \* self.seqnumwidth
    missing,                \* self.missing: directory -> list of names
    dircontents,            \* self.dircontents: directory -> sorted records
    missingfiles,           \* self.missingfiles
    listing,                \* the directory on disk, in os.walk's order
    pc,                     \* position inside processdir
    pairidx,                \* position of the pairs() generator
    returned,               \* reports returned by the processdir calls so far
    name, parts, splitdone, \* argument and result of one splitfilename call
    FILEEXCLUDES,           \* the class attribute: one list for all instances
    fileexcludes,           \* self.fileexcludes: the class list or a list of its own
    excludepat, includepat, \* self.excludepat, self.includepat
    splitpat, template,     \* self.splitpat, self.template
    other,                  \* a second instance of the class
    disk,                   \* what the path given to processdir names on disk
    call,                   \* the last constructor or setsplitpattern call
    raised,                 \* the exception the last call raised
    paths,                  \* main: the directories given on the command line
    pathidx,                \* main: how many of them the loop has begun
    printed                 \* main: the missing files and the total printed

\* the variables the setters write, and the second instance
configvars == <<FILEEXCLUDES, fileexcludes, excludepat, includepat, splitpat,
                template, other>>

\* the variables of main
mainvars == <<paths, pathidx, printed>>

vars == <<start, end, lastfilebarename, nextseqnum, seqnumwidth, missing,
          dircontents, missingfiles, listing, pc, pairidx, returned,
          name, parts, splitdone, configvars, disk, call, raised, mainvars>>

checkervars == <<start, end, lastfilebarename, nextseqnum, seqnumwidth,
                 missing, dircontents, missingfiles, listing, pc, pairidx,
                 returned, configvars, disk, call, raised, mainvars>>

splitvars == <<name, parts, splitdone>>

----------------------------------------------------------------------------
(* Bounds of the model *)

MaxNameLen == 5     \* longest file name given to a lone splitfilename call
MaxFiles == 4       \* most files in the directory
MaxCalls == 2       \* most processdir calls on the one instance
MaxEnd == 3         \* largest configured range end
MaxStart == 2       \* largest configured range start

----------------------------------------------------------------------------
(* Characters *)

Digits == {"0", "1", "2", "3", "4", "5", "6", "7", "8", "9"}

Letters == {"D", "P", "W",
            "a", "b", "c", "d", "e", "f", "g", "h", "i", "j", "k", "l", "m",
            "n", "o", "p", "q", "r", "s", "t", "u", "v", "w", "x", "y", "z"}

\* \d of the re module (no re.UNICODE flag is given)
IsDigit(c) == c \in Digits

\* \w of the re module: the characters on either side of which \b looks
IsWord(c) == c \in Digits \cup Letters \cup {"_"}

\* int() of one decimal digit
DigitValue(c) ==
    CASE c = "0" -> 0 [] c = "1" -> 1 [] c = "2" -> 2 [] c = "3" -> 3
      [] c = "4" -> 4 [] c = "5" -> 5 [] c = "6" -> 6 [] c = "7" -> 7
      [] c = "8" -> 8 [] c = "9" -> 9

\* str() of one decimal digit
DigitChar(d) ==
    CASE d = 0 -> "0" [] d = 1 -> "1" [] d = 2 -> "2" [] d = 3 -> "3"
      [] d = 4 -> "4" [] d = 5 -> "5" [] d = 6 -> "6" [] d = 7 -> "7"
      [] d = 8 -> "8" [] d = 9 -> "9"

\* code point of a character, which cmp() of two unicode strings compares
Ord(c) ==
    CASE c = " " -> 32 [] c = "-" -> 45 [] c = "." -> 46
      [] c \in Digits -> 48 + DigitValue(c)
      [] c = "W" -> 87 [] c = "_" -> 95
      [] c = "a" -> 97 [] c = "b" -> 98 [] c = "e" -> 101 [] c = "g" -> 103
      [] c = "i" -> 105 [] c = "n" -> 110 [] c = "p" -> 112 [] c = "r" -> 114
      [] c = "t" -> 116 [] c = "v" -> 118 [] c = "x" -> 120

----------------------------------------------------------------------------
(* Strings *)

Min(S) == CHOOSE x \in S : \A y \in S : x <= y

Max(S) == CHOOSE x \in S : \A y \in S : x >= y

\* s[a:b] of Python with 1-based inclusive ends
Slice(s, a, b) == SubSeq(s, a, b)

\* re.search(ur'\d+', s)
HasDigit(s) == \E k \in 1..Len(s) : IsDigit(s[k])

AllDigits(s) == \A k \in 1..Len(s) : IsDigit(s[k])

NoDigits(s) == \A k \in 1..Len(s) : ~IsDigit(s[k])

\* cmp(x, y) < 0 of two unicode strings: code point order, a proper prefix first
RECURSIVE StrLess(_, _)
StrLess(x, y) ==
    IF y = <<>> THEN FALSE
    ELSE IF x = <<>> THEN TRUE
    ELSE IF Ord(Head(x)) # Ord(Head(y)) THEN Ord(Head(x)) < Ord(Head(y))
    ELSE StrLess(Tail(x), Tail(y))

\* int(s, 10) of a string of decimal digits
RECURSIVE ToInt(_)
ToInt(s) ==
    IF s = <<>> THEN 0
    ELSE 10 * ToInt(Slice(s, 1, Len(s) - 1)) + DigitValue(s[Len(s)])

\* "%d" % i for i >= 0
RECURSIVE ToStr(_)
ToStr(i) ==
    IF i < 10 THEN <<DigitChar(i)>>
    ELSE Append(ToStr(i \div 10), DigitChar(i % 10))

\* "%0.*d" % (width, i): at least width digits, zeros in front
RECURSIVE ZeroPad(_, _)
ZeroPad(width, i) ==
    LET digits == ToStr(i)
    IN  IF Len(digits) >= width THEN digits
        ELSE <<"0">> \o ZeroPad(width - 1, i)

----------------------------------------------------------------------------
(* splitfilename *)

\* os.path.splitext: cut at the last dot unless only dots come before it
splitext(p) ==
    LET dots == {k \in 1..Len(p) : p[k] = "."}
        dotIndex == IF dots = {} THEN 0 ELSE Max(dots)
    IN  IF dotIndex > 0 /\ \E k \in 1..(dotIndex - 1) : p[k] # "."
        THEN <<Slice(p, 1, dotIndex - 1), Slice(p, dotIndex, Len(p))>>
        ELSE <<p, <<>>>>

\* the result returned when no pattern matches (None)
None == [order |-> "none"]

\* \b after the first p characters of s
WordBoundary(s, p) ==
    (p >= 1 /\ IsWord(s[p])) # (p < Len(s) /\ IsWord(s[p + 1]))

\* The lengths that (?P<seqnum>\d+?) of SPLITPAT[0] may take: a digit run
\* at the start that leaves at least one character for (?P<filename>.+)
ReverseSeqnumLengths(s) ==
    {k \in 1..(Len(s) - 1) : AllDigits(Slice(s, 1, k))}

\* \d+? is lazy: the shortest length is taken
ReverseSeqnumLength(s) == Min(ReverseSeqnumLengths(s))

\* SPLITPAT[0]: ^(?=\d)(?P<seqnum>\d+?)(?P<filename>.+), order reverse
MatchReverse(s) ==
    IF Len(s) >= 1 /\ IsDigit(s[1]) /\ ReverseSeqnumLengths(s) # {}
    THEN LET k == ReverseSeqnumLength(s)
         IN  [matched |-> TRUE,
              groups |-> [seqnum |-> Slice(s, 1, k),
                          filename |-> Slice(s, k + 1, Len(s))]]
    ELSE [matched |-> FALSE]

\* SPLITPAT[1]: ^(?P<filename2>\D)(?P<seqnum>\d+)(?P<filename>.*?)(?=\b),
\* order reverse. \d+ is greedy, .*? is lazy and stops at the first word
\* boundary; re.match does not need to reach the end of the string.
MatchReverse2(s) ==
    LET ks == {k \in 1..(Len(s) - 1) :
                  /\ AllDigits(Slice(s, 2, 1 + k))
                  /\ \E j \in 0..(Len(s) - 1 - k) : WordBoundary(s, 1 + k + j)}
    IN  IF Len(s) >= 2 /\ ~IsDigit(s[1]) /\ ks # {}
        THEN LET k == Max(ks)
                 j == Min({j \in 0..(Len(s) - 1 - k) : WordBoundary(s, 1 + k + j)})
             IN  [matched |-> TRUE,
                  groups |-> [filename2 |-> Slice(s, 1, 1),
                              seqnum |-> Slice(s, 2, 1 + k),
                              filename |-> Slice(s, 2 + k, 1 + k + j)]]
        ELSE [matched |-> FALSE]

\* SPLITPAT[2]: (?!\d)(?P<filename>.+?)(?P<seqnum>\d+)(?P<filename2>\D*?)$,
\* order normal. .+? is lazy, \d+ is greedy, \D*? must reach the end.
MatchNormal(s) ==
    LET fits(i, k) == /\ AllDigits(Slice(s, i + 1, i + k))
                      /\ NoDigits(Slice(s, i + k + 1, Len(s)))
        is == {i \in 1..(Len(s) - 1) : \E k \in 1..(Len(s) - i) : fits(i, k)}
    IN  IF Len(s) >= 2 /\ ~IsDigit(s[1]) /\ is # {}
        THEN LET i == Min(is)
                 k == Max({k \in 1..(Len(s) - i) : fits(i, k)})
             IN  [matched |-> TRUE,
                  groups |-> [filename |-> Slice(s, 1, i),
                              seqnum |-> Slice(s, i + 1, i + k),
                              filename2 |-> Slice(s, i + k + 1, Len(s))]]
        ELSE [matched |-> FALSE]

\* self.splitpat = SPLITPAT: the patterns with their orders, tried in turn
SPLITPAT(s) ==
    << [match |-> MatchReverse(s),  order |-> "reverse"],
       [match |-> MatchReverse2(s), order |-> "reverse"],
       [match |-> MatchNormal(s),   order |-> "normal"] >>

\* the dictionary built from a match: filename2 only if the pattern has it
SplitResult(groups, fileext, order) ==
    IF "filename2" \in DOMAIN groups
    THEN [filename |-> groups.filename, seqnum |-> groups.seqnum,
          fileext |-> fileext, order |-> order,
          filename2 |-> groups.filename2]
    ELSE [filename |-> groups.filename, seqnum |-> groups.seqnum,
          fileext |-> fileext, order |-> order]

\* splitfilename with self.splitpat a list: the first pattern that matches
splitfilename(filename) ==
    LET ext == splitext(filename)
        nodigits == ~HasDigit(ext[1])
        stem == IF nodigits THEN ext[1] \o ext[2] ELSE ext[1]
        fileext == IF nodigits THEN <<>> ELSE ext[2]
        pats == SPLITPAT(stem)
        hits == {n \in 1..Len(pats) : pats[n].match.matched}
    IN  IF nodigits /\ ~HasDigit(ext[2]) THEN None
        ELSE IF hits = {} THEN None
        ELSE LET d == pats[Min(hits)]
             IN  SplitResult(d.match.groups, fileext, d.order)

----------------------------------------------------------------------------
(* setsplitpattern: a pattern and a template given as unicode strings *)

\* None, where a pattern or a template is expected
NoPattern == <<"None">>

\* self.splitpat = self.SPLITPAT: the list of default patterns
DefaultSplitpat == <<"SPLITPAT">>

\* is the text w in s at place k?
StartsWithAt(s, k, w) ==
    /\ k >= 1
    /\ k + Len(w) - 1 <= Len(s)
    /\ SubSeq(s, k, k + Len(w) - 1) = w

\* re.search(w, s) for a text w without special characters
Contains(s, w) == \E k \in 1..(Len(s) + 1) : StartsWithAt(s, k, w)

\* re.search(ur"\b%s\b" % key, tp): the key as a whole word
HasWord(tp, key) ==
    \E k \in 1..Len(tp) :
        /\ StartsWithAt(tp, k, key)
        /\ WordBoundary(tp, k - 1)
        /\ WordBoundary(tp, k + Len(key) - 1)

\* the texts the regular expressions of setsplitpattern look for
GroupOpen ==
    <<"?", "P", "<">>

NamedFilename ==
    <<"?", "P", "<", "f", "i", "l", "e", "n", "a", "m", "e", ">">>

NamedSeqnum ==
    <<"?", "P", "<", "s", "e", "q", "n", "u", "m", ">">>

WordFilename ==
    <<"f", "i", "l", "e", "n", "a", "m", "e">>

WordSeqnum ==
    <<"s", "e", "q", "n", "u", "m">>

\* re.finditer(ur'\?P<(.*?)>', pt): the names of the named groups
GroupNames(pt) ==
    {SubSeq(pt, k + 3, Min({j \in (k + 3)..Len(pt) : pt[j] = ">"}) - 1) :
        k \in {k \in 1..Len(pt) : /\ StartsWithAt(pt, k, GroupOpen)
                                  /\ \E j \in (k + 3)..Len(pt) : pt[j] = ">"}}

\* verifytemplate(pt, tp): does it raise ValueError?
verifytemplateRaises(pt, tp) == \E key \in GroupNames(pt) : ~HasWord(tp, key)

\* an exception instead of a result
Raise(exception) == [raised |-> exception]

\* sanitizepattern(pat): the pattern without its quotation marks, or the
\* exception raised
sanitizepattern(pat) ==
    IF Len(pat) = 0 THEN Raise("ValueError")
    ELSE LET quotes == {"\"", "'"}
             nofirst == IF pat[1] \in quotes THEN Tail(pat) ELSE pat
         IN  IF nofirst = <<>> THEN Raise("IndexError")      \* pat[-1] of ''
             ELSE LET chopped == IF nofirst[Len(nofirst)] \in quotes
                                 THEN SubSeq(nofirst, 1, Len(nofirst) - 1)
                                 ELSE nofirst
                  IN  IF ~Contains(chopped, NamedFilename) THEN Raise("ValueError")
                      ELSE IF ~Contains(chopped, NamedSeqnum) THEN Raise("ValueError")
                      ELSE [raised |-> "none", pat |-> chopped]

\* setsplitpattern(pattern, template) for a pattern that is None or a
\* string: the exception raised and the value self.splitpat has afterwards
setsplitpattern(old, pattern, tp) ==
    IF pattern = NoPattern THEN [raised |-> "none", splitpat |-> DefaultSplitpat]
    ELSE IF tp = NoPattern \/ tp = <<>>
         THEN [raised |-> "ValueError", splitpat |-> old]
    ELSE IF verifytemplateRaises(pattern, tp)
         THEN [raised |-> "ValueError", splitpat |-> old]
    ELSE LET sane == sanitizepattern(pattern)
         IN  IF sane.raised # "none"
             THEN [raised |-> sane.raised, splitpat |-> old]
             ELSE [raised |-> "none", splitpat |-> sane.pat]

\* custom patterns: a name without digits, then the number
NormalGrammar ==
    <<"(", "?", "P", "<", "f", "i", "l", "e", "n", "a", "m", "e", ">",
      "\\", "D", "+", ")", "(", "?", "P", "<", "s", "e", "q", "n", "u",
      "m", ">", "\\", "d", "+", ")">>

\* one character that is no digit, then any one character as the number
AnyIndexGrammar ==
    <<"(", "?", "P", "<", "f", "i", "l", "e", "n", "a", "m", "e", ">",
      "\\", "D", ")", "(", "?", "P", "<", "s", "e", "q", "n", "u", "m",
      ">", ".", ")">>

\* templates for them
NormalTemplate ==
    <<"%", "(", "f", "i", "l", "e", "n", "a", "m", "e", ")", "s", "%", "(",
      "s", "e", "q", "n", "u", "m", ")", "s">>

ReverseTemplate ==
    <<"%", "(", "s", "e", "q", "n", "u", "m", ")", "s", "%", "(", "f", "i",
      "l", "e", "n", "a", "m", "e", ")", "s">>

\* re.match of a custom pattern of the model on s
CustomMatch(pat, s) ==
    IF pat = NormalGrammar
    THEN LET i == Max({i \in 0..Len(s) : NoDigits(Slice(s, 1, i))})
             k == Max({k \in 0..(Len(s) - i) : AllDigits(Slice(s, i + 1, i + k))})
         IN  IF i >= 1 /\ k >= 1
             THEN [matched |-> TRUE,
                   groups |-> [filename |-> Slice(s, 1, i),
                               seqnum |-> Slice(s, i + 1, i + k)]]
             ELSE [matched |-> FALSE]
    ELSE IF pat = AnyIndexGrammar
    THEN IF Len(s) >= 2 /\ ~IsDigit(s[1])
         THEN [matched |-> TRUE,
               groups |-> [filename |-> Slice(s, 1, 1), seqnum |-> Slice(s, 2, 2)]]
         ELSE [matched |-> FALSE]
    ELSE [matched |-> FALSE]

\* the order read off the pattern: which of the words filename and seqnum
\* comes first in its text
InferOrder(pat) ==
    LET word(k) == IF StartsWithAt(pat, k, WordFilename) THEN "filename"
                   ELSE IF StartsWithAt(pat, k, WordSeqnum) THEN "seqnum"
                   ELSE "none"
        found == {k \in 1..Len(pat) : word(k) # "none"}
        first == Min(found)
        second == Min(found \ {first})
    IN  IF word(first) = "filename" /\ word(second) = "seqnum" THEN "normal"
        ELSE IF word(first) = "seqnum" /\ word(second) = "filename" THEN "reverse"
        ELSE "undefined"

\* splitfilename raised ValueError: the order of the pattern is undefined
OrderUndefined == [order |-> "undefined"]

\* splitfilename with self.splitpat a unicode string
splitfilenameUnicode(pat, filename) ==
    LET ext == splitext(filename)
        nodigits == ~HasDigit(ext[1])
        stem == IF nodigits THEN ext[1] \o ext[2] ELSE ext[1]
        fileext == IF nodigits THEN <<>> ELSE ext[2]
        match == CustomMatch(pat, stem)
    IN  IF nodigits /\ ~HasDigit(ext[2]) THEN None
        ELSE IF InferOrder(pat) = "undefined" THEN OrderUndefined
        ELSE IF ~match.matched THEN None
        ELSE IF Len(match.groups.filename) = 0 THEN None
        ELSE IF Len(match.groups.seqnum) = 0 THEN None
        ELSE SplitResult(match.groups, fileext, InferOrder(pat))

\* splitfilename under the pattern the instance has
splitfilenameWith(pat, filename) ==
    IF pat = DefaultSplitpat THEN splitfilename(filename)
    ELSE splitfilenameUnicode(pat, filename)

----------------------------------------------------------------------------
(* The checker's state *)

\* start=None, end=None of __init__: no range given. __init__ rejects
\* negative ints, and the checker is constructed with ints from 0 on.
NoneInt == -1

\* isinstance(x, int)
IsInt(x) == x # NoneInt

\* self.missing = {} and self.dircontents = {}
EmptyDict == [d \in {} |-> <<>>]

\* the comparison variables and the report, as comparefile reads and writes them
Self == [lastfilebarename |-> lastfilebarename, nextseqnum |-> nextseqnum,
         seqnumwidth |-> seqnumwidth, missing |-> missing,
         missingfiles |-> missingfiles]

\* FILEEXCLUDES of a Unix-like system (the else branch of the class body)
PlatformExcludes == <<>>

\* self.fileexcludes = self.FILEEXCLUDES: the instance holds the class's list
ClassList == [ref |-> "class"]

\* self.fileexcludes = filenames: the instance holds a list of its own
OwnList(filenames) == [ref |-> "own", list |-> filenames]

\* the names in the list an instance's fileexcludes refers to
Excludes(ref, classlist) == IF ref = ClassList THEN classlist ELSE ref.list

\* neither the constructor nor setsplitpattern was called
NoCall == [op |-> "none"]

\* no second instance was constructed
NoInstance == [made |-> FALSE]

\* the values an argument of the constructor can be
NoneArg == [type |-> "none"]

IntArg(n) == [type |-> "int", value |-> n]

StrArg(text) == [type |-> "str", text |-> text]

BoolArg(b) == [type |-> "bool", value |-> b]

DictArg == [type |-> "dict"]

\* text.strip() of a text with blanks
RECURSIVE strip(_)
strip(text) ==
    IF text # <<>> /\ Head(text) = " " THEN strip(Tail(text))
    ELSE IF text # <<>> /\ text[Len(text)] = " "
         THEN strip(Slice(text, 1, Len(text) - 1))
    ELSE text

\* does int(text, 10) return a number?  A sign, then digits
IsIntText(text) ==
    LET digits == IF text # <<>> /\ Head(text) = "-" THEN Tail(text) ELSE text
    IN  digits # <<>> /\ AllDigits(digits)

\* int(text, 10)
IntOfText(text) ==
    IF Head(text) = "-" THEN 0 - ToInt(Tail(text)) ELSE ToInt(text)

\* what __init__ does with start and with end: a text is converted, and
\* only in the other branch is a negative int rejected
ConvertRange(x) ==
    IF x.type = "str"
    THEN IF IsIntText(strip(x.text))
         THEN [raised |-> "none", value |-> IntArg(IntOfText(strip(x.text)))]
         ELSE Raise("ValueError")
    ELSE IF x.type = "int" /\ x.value < 0 THEN Raise("ValueError")
    ELSE [raised |-> "none", value |-> x]

\* __init__(start, end, recursive): the exception raised, or the instance
__init__(startarg, endarg, recursivearg) ==
    LET s == ConvertRange(startarg)
        e == ConvertRange(endarg)
    IN  IF s.raised # "none" THEN Raise("ValueError")
        ELSE IF e.raised # "none" THEN Raise("ValueError")
        ELSE IF /\ s.value.type = "int" /\ e.value.type = "int"
                /\ s.value.value >= e.value.value
             THEN Raise("ValueError")
        ELSE IF recursivearg.type \notin {"bool", "int"} THEN Raise("ValueError")
        ELSE [raised |-> "none",
              instance |->
                [made |-> TRUE, start |-> s.value, end |-> e.value,
                 recursive |-> IF recursivearg.type = "bool"
                               THEN recursivearg.value
                               ELSE recursivearg.value # 0,
                 fileexcludes |-> ClassList, excludepat |-> NoPattern,
                 includepat |-> NoPattern, splitpat |-> DefaultSplitpat,
                 template |-> NoPattern, lastfilebarename |-> <<>>,
                 nextseqnum |-> -1, seqnumwidth |-> -1,
                 missing |-> EmptyDict]]

\* FileSequenceChecker(): the instance the default arguments give
NewInstance == __init__(NoneArg, NoneArg, BoolArg(FALSE)).instance

\* reset() that leaves seqnumwidth as it is
resetKeepsWidth(self) ==
    [self EXCEPT !.lastfilebarename = <<>>, !.nextseqnum = -1,
                 !.missingfiles = <<>>]

\* reset(): the comparison variables back to their initial state
reset(self) ==
    [self EXCEPT !.lastfilebarename = <<>>, !.nextseqnum = -1,
                 !.seqnumwidth = -1, !.missingfiles = <<>>]

\* the start/end pairs __init__ accepts
ValidRange(s, e) ==
    /\ IsInt(s) => s >= 0
    /\ IsInt(e) => e >= 0
    /\ (IsInt(s) /\ IsInt(e)) => s < e

----------------------------------------------------------------------------
(* preparedircontents *)

\* seqnum_compare(x, y) < 0
seqnum_less(x, y) == ToInt(x.seqnum) - ToInt(y.seqnum) < 0

\* filename_compare(x, y) < 0
filename_less(x, y) == StrLess(x.filename, y.filename)

\* cmp(x, y) < 0 for the cmp function of either sort
Less(cmp, x, y) ==
    IF cmp = "seqnum_compare" THEN seqnum_less(x, y) ELSE filename_less(x, y)

\* one item put into an already sorted list, after every item it is not
\* less than: the list stays sorted and equal items keep their order
RECURSIVE InsertStable(_, _, _)
InsertStable(sortedseq, item, cmp) ==
    IF sortedseq = <<>> THEN <<item>>
    ELSE IF Less(cmp, item, sortedseq[Len(sortedseq)])
         THEN Append(InsertStable(Slice(sortedseq, 1, Len(sortedseq) - 1), item, cmp),
                     sortedseq[Len(sortedseq)])
         ELSE Append(sortedseq, item)

\* sorted(lst, cmp=...): a stable sort
RECURSIVE sorted(_, _)
sorted(lst, cmp) ==
    IF lst = <<>> THEN <<>>
    ELSE InsertStable(sorted(Slice(lst, 1, Len(lst) - 1), cmp), lst[Len(lst)], cmp)

\* the records of the files that split, in the order of the listing
RECURSIVE SplitAll(_, _)
SplitAll(pat, files) ==
    IF files = <<>> THEN <<>>
    ELSE LET nameparts == splitfilenameWith(pat, Head(files))
         IN  IF nameparts = None THEN SplitAll(pat, Tail(files))
             ELSE <<nameparts>> \o SplitAll(pat, Tail(files))

\* NaturalSort with the two sorts the other way round
NaturalSortNameFirst(records) ==
    sorted(sorted(records, "filename_compare"), "seqnum_compare")

\* sort by seqnum, then by filename
NaturalSort(records) ==
    sorted(sorted(records, "seqnum_compare"), "filename_compare")

\* does the walk meet a file that does not split (and call self.reset())?
SomeUnsplit(pat, files) ==
    \E k \in 1..Len(files) : splitfilenameWith(pat, files[k]) = None

\* the path of the directory processdir is called on
DirPath == <<"d", "a", "t", "a">>

\* os.path.join(root, thefile)
filepath(thefile) == DirPath \o <<"/">> \o thefile

\* `if self.excludepat and ...`: None and the empty pattern count as not set
IsSet(pattern) == pattern # NoPattern /\ pattern # <<>>

\* Keeps with the include pattern looked at before the exclude pattern
KeepsIncludeFirst(excludes, expat, inpat, thefile) ==
    /\ \A k \in 1..Len(excludes) : excludes[k] # thefile
    /\ \/ IsSet(inpat) /\ Contains(filepath(thefile), inpat)
       \/ /\ ~IsSet(inpat)
          /\ ~(IsSet(expat) /\ Contains(filepath(thefile), expat))

\* the three tests a file of the walk passes before it is split; the
\* patterns of the model are texts without special characters
Keeps(excludes, expat, inpat, thefile) ==
    /\ \A k \in 1..Len(excludes) : excludes[k] # thefile
    /\ ~(IsSet(expat) /\ Contains(filepath(thefile), expat))
    /\ ~(IsSet(inpat) /\ ~Contains(filepath(thefile), inpat))

\* the files of the walk that pass the tests, in the order of the listing
Kept(excludes, expat, inpat, files) ==
    SelectSeq(files, LAMBDA f : Keeps(excludes, expat, inpat, f))

\* does int(s, 10) return a number?
IsNumeral(s) == s # <<>> /\ AllDigits(s)

\* sorted(..., cmp=seqnum_compare) raises ValueError: with two records or
\* more every seqnum is converted by int()
SortRaises(records) ==
    /\ Len(records) >= 2
    /\ \E k \in 1..Len(records) : ~IsNumeral(records[k].seqnum)

\* preparedircontents on a directory: the exception raised, whether
\* self.reset() was called, and the list put into self.dircontents
preparedircontents(excludes, expat, inpat, pat, files) ==
    LET kept == Kept(excludes, expat, inpat, files)
        undefined == {k \in 1..Len(kept) :
                         splitfilenameWith(pat, kept[k]) = OrderUndefined}
        walked == IF undefined = {} THEN kept
                  ELSE Slice(kept, 1, Min(undefined) - 1)
        records == SplitAll(pat, walked)
    IN  IF undefined # {}
        THEN [raised |-> "ValueError", reset |-> SomeUnsplit(pat, walked)]
        ELSE IF SortRaises(records)
        THEN [raised |-> "ValueError", reset |-> SomeUnsplit(pat, walked)]
        ELSE [raised |-> "none", reset |-> SomeUnsplit(pat, walked),
              records |-> NaturalSort(records)]

----------------------------------------------------------------------------
(* comparefile *)

\* PastEnd with the bound off by one: the loop runs one index too far
PastEndOffByOne(e, i) == e # 0 /\ i > e + 1

\* if end and i > end
PastEnd(e, i) == e # 0 /\ i > e

\* BelowStart with the bound off by one
BelowStartOffByOne(s, iseqnum) == s # 0 /\ iseqnum < s - 1

\* if start and iseqnum < start
BelowStart(s, iseqnum) == s # 0 /\ iseqnum < s

\* missingfilename with the order of the record ignored
missingfilenameNormalOnly(cur, filename2, width, i) ==
    cur.filename \o ZeroPad(width, i) \o filename2 \o cur.fileext

\* the name of the missing file with sequence number i
missingfilename(cur, filename2, width, i) ==
    IF cur.order = "reverse"
    THEN filename2 \o ZeroPad(width, i) \o cur.filename \o cur.fileext
    ELSE cur.filename \o ZeroPad(width, i) \o filename2 \o cur.fileext

\* AppendMissing that makes the key with an empty list on first use and
\* leaves the name out
AppendMissingEmptyFirst(self, dir, missingname) ==
    [self EXCEPT !.missing =
        [d \in DOMAIN self.missing \cup {dir} |->
            IF d = dir
            THEN IF dir \in DOMAIN self.missing
                 THEN Append(self.missing[dir], missingname)
                 ELSE <<>>
            ELSE self.missing[d]]]

\* self.missing[dir].append(missingfilename), the key made on first use
AppendMissing(self, dir, missingname) ==
    [self EXCEPT !.missing =
        [d \in DOMAIN self.missing \cup {dir} |->
            IF d = dir
            THEN IF dir \in DOMAIN self.missing
                 THEN Append(self.missing[dir], missingname)
                 ELSE <<missingname>>
            ELSE self.missing[d]]]

\* MissingLoop that runs up to iseqnum itself
RECURSIVE MissingLoopInclusive(_, _, _, _, _, _, _)
MissingLoopInclusive(self, dir, cur, filename2, e, i, iseqnum) ==
    IF i > iseqnum THEN self
    ELSE IF PastEnd(e, i) THEN self
    ELSE MissingLoopInclusive(
            AppendMissing(self, dir,
                          missingfilename(cur, filename2, self.seqnumwidth, i)),
            dir, cur, filename2, e, i + 1, iseqnum)

\* for i in xrange(self.nextseqnum, iseqnum): break past end, else append
RECURSIVE MissingLoop(_, _, _, _, _, _, _)
MissingLoop(self, dir, cur, filename2, e, i, iseqnum) ==
    IF i >= iseqnum THEN self
    ELSE IF PastEnd(e, i) THEN self
    ELSE MissingLoop(
            AppendMissing(self, dir,
                          missingfilename(cur, filename2, self.seqnumwidth, i)),
            dir, cur, filename2, e, i + 1, iseqnum)

\* is the state reset when the next file has another bare name?  Only the
\* branch that continues a sequence looks at the next file.
EndsSequence(cur, nxt) == nxt.filename # cur.filename

\* BeginSequence without the reset for a number past the end
BeginSequenceNoEndReset(self, cur, nxt, e, iseqnum) ==
    [self EXCEPT !.lastfilebarename = cur.filename,
                 !.nextseqnum = iseqnum + 1]

\* BeginSequence without the increment: the number of the first file is
\* expected again
BeginSequenceSameNumber(self, cur, nxt, e, iseqnum) ==
    LET begun == [self EXCEPT !.lastfilebarename = cur.filename,
                              !.nextseqnum = iseqnum]
    IN  IF e # 0 /\ begun.nextseqnum > e THEN reset(begun) ELSE begun

\* the branch taken when self.lastfilebarename == '': a new sequence begins
BeginSequence(self, cur, nxt, e, iseqnum) ==
    LET begun == [self EXCEPT !.lastfilebarename = cur.filename,
                              !.nextseqnum = iseqnum + 1]
    IN  IF e # 0 /\ begun.nextseqnum > e THEN reset(begun) ELSE begun

\* the branch taken when self.lastfilebarename == filebarename
ContinueSequence(self, dir, cur, nxt, filename2, e, iseqnum) ==
    IF self.nextseqnum > 0 /\ iseqnum # self.nextseqnum
    THEN LET looped == MissingLoop(self, dir, cur, filename2, e,
                                   self.nextseqnum, iseqnum)
         IN  IF PastEnd(e, iseqnum) THEN reset(looped)
             ELSE LET moved == [looped EXCEPT !.nextseqnum = iseqnum + 1]
                  IN  IF EndsSequence(cur, nxt) THEN reset(moved) ELSE moved
    ELSE LET moved == [self EXCEPT !.nextseqnum = @ + 1]
         IN  IF EndsSequence(cur, nxt) THEN reset(moved) ELSE moved

\* comparefile(dir, curfilenameparts, nextfilenameparts): the state it leaves.
\* It returns True on every path.
comparefile(self, dir, cur, nxt, s0, e0) ==
    LET filename2 == IF "filename2" \in DOMAIN cur THEN cur.filename2 ELSE <<>>
        iseqnum == ToInt(cur.seqnum)
        s == IF IsInt(s0) THEN s0 ELSE 0
        e == IF IsInt(e0) THEN e0 ELSE 0
        widthset == IF self.seqnumwidth < 0
                    THEN [self EXCEPT !.seqnumwidth = Len(cur.seqnum)]
                    ELSE self
    IN  IF BelowStart(s, iseqnum) THEN self
        ELSE IF widthset.lastfilebarename = <<>>
             THEN BeginSequence(widthset, cur, nxt, e, iseqnum)
        ELSE IF widthset.lastfilebarename = cur.filename
             THEN ContinueSequence(widthset, dir, cur, nxt, filename2, e, iseqnum)
        ELSE reset(widthset)

----------------------------------------------------------------------------
(* processdir *)

\* pairs without the pair of the last item with the first
pairsNoWrap(lst) ==
    IF Len(lst) < 2 THEN <<>>
    ELSE [k \in 1..(Len(lst) - 1) |-> <<lst[k], lst[k + 1]>>]

\* pairs(lst): each item with the one after it, then the last with the first;
\* nothing for a list of fewer than two items
pairs(lst) ==
    IF Len(lst) < 2 THEN <<>>
    ELSE [k \in 1..Len(lst) |->
            <<lst[k], IF k < Len(lst) THEN lst[k + 1] ELSE lst[1]>>]

\* the directory processdir is called on (not recursive: one key)
Dir == "data"

----------------------------------------------------------------------------
(* The directories the checker is run on *)

\* The file names a directory is filled from: a normal-order sequence
\* "ab<n>.x" with one- and two-digit numbers, reverse-order names with one
\* character before the number ("v<n>_a.x", "a<n>.x") and with a leading
\* number ("1 a.x"), and a name without a number.
Pool ==
    << <<"a", "b", "1", ".", "x">>,             \* ab1.x
       <<"a", "b", "0", "1", ".", "x">>,        \* ab01.x
       <<"a", "b", "2", ".", "x">>,             \* ab2.x
       <<"a", "b", "3", ".", "x">>,             \* ab3.x
       <<"a", "b", "6", ".", "x">>,             \* ab6.x
       <<"v", "1", "_", "a", ".", "x">>,        \* v1_a.x
       <<"v", "3", "_", "a", ".", "x">>,        \* v3_a.x
       <<"a", "1", ".", "x">>,                  \* a1.x
       <<"a", "3", ".", "x">>,                  \* a3.x
       <<"1", " ", "a", ".", "x">>,             \* 1 a.x
       <<"a", "b", ".", "x">> >>                \* ab.x

\* unittests/data/reverse_order as the class docstring and the spec list it
ReverseOrderDir ==
    << <<"1", " ", "W", "r", "i", "t", "e", "3", "0", ".", "p", "n", "g">>,
       <<"3", " ", "W", "r", "i", "t", "e", "3", "0", ".", "p", "n", "g">>,
       <<"6", " ", "W", "r", "i", "t", "e", "3", "0", ".", "p", "n", "g">>,
       <<"v", "1", "3", "_", "W", "r", "i", "t", "e", ".", "p", "n", "g">>,
       <<"v", "1", "4", "_", "W", "r", "i", "t", "e", ".", "p", "n", "g">>,
       <<"r", "1", "0", "1", "_", "W", "r", "i", "t", "e", "3", "0", ".", "p", "n", "g">>,
       <<"r", "1", "0", "2", "_", "W", "r", "i", "t", "e", "3", "0", ".", "p", "n", "g">>,
       <<"r", "1", "0", "3", "_", "W", "r", "i", "t", "e", "3", "0", ".", "p", "n", "g">>,
       <<"r", "1", "0", "4", "_", "W", "r", "i", "t", "e", "3", "0", ".", "p", "n", "g">> >>

\* the sequence s turned left by k places
Rotate(s, k) == [n \in 1..Len(s) |-> s[((n - 1 + k) % Len(s)) + 1]]

\* the sequence s back to front
Reverse(s) == [n \in 1..Len(s) |-> s[Len(s) + 1 - n]]

\* orders in which os.walk may list the fixture directory
FixtureListings ==
    {Rotate(ReverseOrderDir, k) : k \in 0..(Len(ReverseOrderDir) - 1)}
    \cup {Rotate(Reverse(ReverseOrderDir), k) : k \in 0..(Len(ReverseOrderDir) - 1)}

\* the files of the pool at the places picked, in the pool's order
Picked(places) ==
    LET upto[k \in 0..Len(Pool)] ==
            IF k = 0 THEN <<>>
            ELSE IF k \in places THEN Append(upto[k - 1], Pool[k])
            ELSE upto[k - 1]
    IN  upto[Len(Pool)]

\* the directories of up to MaxFiles files of the pool, each as os.walk may
\* list it: in the pool's order or back to front
PoolListings ==
    LET dirs == {Picked(places) : places \in
                    {P \in SUBSET (1..Len(Pool)) : Cardinality(P) <= MaxFiles}}
    IN  dirs \cup {Reverse(l) : l \in dirs}

\* the values start and end are constructed with
Starts == {NoneInt} \cup 0..MaxStart

Ends == {NoneInt} \cup 0..MaxEnd

----------------------------------------------------------------------------
(* Specification of the checker: one instance, processdir called on it *)

\* no splitfilename call of its own is made in this specification
SplitIdle == name = <<>> /\ parts = None /\ splitdone = FALSE

\* main has printed nothing
NoPrint == [done |-> FALSE]

\* main is not run in this specification
NoMain == paths = <<>> /\ pathidx = 0 /\ printed = NoPrint

\* the state __init__ leaves
Constructed(s, e) ==
    /\ start = s
    /\ end = e
    /\ lastfilebarename = <<>>
    /\ nextseqnum = -1
    /\ seqnumwidth = -1
    /\ missing = EmptyDict
    /\ dircontents = EmptyDict
    /\ missingfiles = <<>>
    /\ pc = "idle"
    /\ pairidx = 0
    /\ returned = <<>>
    /\ FILEEXCLUDES = PlatformExcludes
    /\ fileexcludes = ClassList
    /\ excludepat = NoPattern
    /\ includepat = NoPattern
    /\ splitpat = DefaultSplitpat
    /\ template = NoPattern
    /\ other = NoInstance
    /\ disk = "dir"
    /\ call = NoCall
    /\ raised = "none"

Init ==
    /\ listing \in PoolListings \cup FixtureListings
    /\ \E s \in Starts, e \in Ends : ValidRange(s, e) /\ Constructed(s, e)
    /\ SplitIdle
    /\ NoMain

\* comparefile's and reset()'s writes to the instance
Assign(self) ==
    /\ lastfilebarename' = self.lastfilebarename
    /\ nextseqnum' = self.nextseqnum
    /\ seqnumwidth' = self.seqnumwidth
    /\ missing' = self.missing
    /\ missingfiles' = self.missingfiles

\* what the path can name: the directory, a file, or nothing at all
Paths == {"dir", "file", "absent"}

\* IsBadPath that lets a file pass as a directory
IsBadPathAbsentOnly(inpath) == inpath = "absent"

\* preparedircontents raises ValueError for a path that does not exist
\* or is not a directory
IsBadPath(inpath) == inpath # "dir"

\* processdir up to the pair loop: preparedircontents splits and sorts the
\* files of the directory, calling reset() for a file that does not split.
\* It raises for a bad path before anything is written, and from the sort
\* after the resets of the walk.
ProcessdirCall ==
    /\ pc = "idle"
    /\ Len(returned) < MaxCalls
    /\ IF IsBadPath(disk)
       THEN /\ raised' = "ValueError"
            /\ UNCHANGED <<lastfilebarename, nextseqnum, seqnumwidth,
                           missing, missingfiles, dircontents, pc, pairidx>>
       ELSE \E prepared \in {preparedircontents(
                                Excludes(fileexcludes, FILEEXCLUDES),
                                excludepat, includepat, splitpat, listing)} :
                /\ raised' = prepared.raised
                /\ Assign(IF prepared.reset THEN reset(Self) ELSE Self)
                /\ IF prepared.raised # "none"
                   THEN UNCHANGED <<dircontents, pc, pairidx>>
                   ELSE /\ dircontents' =
                              [d \in DOMAIN dircontents \cup {Dir} |->
                                  IF d = Dir THEN prepared.records
                                  ELSE dircontents[d]]
                        /\ pc' = "pairs"
                        /\ pairidx' = 1
    /\ UNCHANGED <<start, end, listing, returned, splitvars, mainvars, configvars,
                   disk, call>>

\* one turn of the loop over pairs(files): comparefile on the next pair
ComparefileCall ==
    /\ pc = "pairs"
    /\ pairidx <= Len(pairs(dircontents[Dir]))
    /\ LET pair == pairs(dircontents[Dir])[pairidx]
       IN  \E after \in {comparefile(Self, Dir, pair[1], pair[2], start, end)} :
               Assign(after)
    /\ pairidx' = pairidx + 1
    /\ UNCHANGED <<start, end, dircontents, listing, pc, returned, splitvars, mainvars,
                   configvars, disk, call, raised>>

\* the loop is over: processdir returns self.missing
ProcessdirReturn ==
    /\ pc = "pairs"
    /\ pairidx > Len(pairs(dircontents[Dir]))
    /\ returned' = Append(returned, missing)
    /\ pc' = "idle"
    /\ UNCHANGED <<start, end, lastfilebarename, nextseqnum, seqnumwidth,
                   missing, dircontents, missingfiles, listing, pairidx,
                   splitvars, mainvars, configvars, disk, call, raised>>

Next == ProcessdirCall \/ ComparefileCall \/ ProcessdirReturn

Spec == Init /\ [][Next]_vars

\* the checker with processdir's loop running on: `for curfile, nextfile
\* in pairs(files)` takes the next pair whenever there is one and the
\* method returns when there is none
SpecWalk ==
    /\ Init
    /\ [][Next]_vars
    /\ WF_vars(ComparefileCall)
    /\ WF_vars(ProcessdirReturn)

----------------------------------------------------------------------------
(* Specification of splitfilename alone: one call on any short file name *)

\* the characters the file names are made of: two digits, a letter, a
\* character that is no word character, and the dot
SplitAlphabet == {"0", "1", "a", " ", "."}

SplitNames == UNION {[1..n -> SplitAlphabet] : n \in 1..MaxNameLen}

InitSplit ==
    /\ name \in SplitNames
    /\ parts = None
    /\ splitdone = FALSE
    /\ listing = <<>>
    /\ Constructed(NoneInt, NoneInt)
    /\ NoMain

SplitfilenameCall ==
    /\ ~splitdone
    /\ parts' = splitfilename(name)
    /\ splitdone' = TRUE
    /\ UNCHANGED <<name, checkervars>>

NextSplit == SplitfilenameCall

SpecSplit == InitSplit /\ [][NextSplit]_vars

----------------------------------------------------------------------------
(* Specification of the filters: the setters of the exclude list and of  *)
(* the include and exclude patterns, a second instance, and processdir   *)

\* setfileexcludes(filenames, extend): the list the instance refers to
\* afterwards and the class's list afterwards
setfileexcludes(ref, classlist, filenames, extend) ==
    IF extend
    THEN IF ref = ClassList
         THEN [fileexcludes |-> ref, FILEEXCLUDES |-> classlist \o filenames]
         ELSE [fileexcludes |-> OwnList(ref.list \o filenames),
               FILEEXCLUDES |-> classlist]
    ELSE [fileexcludes |-> OwnList(filenames), FILEEXCLUDES |-> classlist]

\* a directory with two sequences, "ab<n>.x" and "v<n>_a.x", each with a
\* gap, and a file without a number
FilterDir ==
    << <<"a", "b", "1", ".", "x">>,
       <<"a", "b", "3", ".", "x">>,
       <<"v", "1", "_", "a", ".", "x">>,
       <<"v", "3", "_", "a", ".", "x">>,
       <<"a", "b", ".", "x">> >>

FilterListings == {FilterDir, Reverse(FilterDir)}

\* the lists of names setfileexcludes is called with
ExcludeLists ==
    { << <<"a", "b", "3", ".", "x">> >>,
      << <<"v", "1", "_", "a", ".", "x">> >> }

\* the checker is configured before its first processdir call, as main()
\* configures it
NotYetRun == pc = "idle" /\ returned = <<>>

\* the patterns setexcludepattern is called with: None, the empty pattern,
\* and one that matches the paths of the files that begin with "a"
ExcludePatterns == {NoPattern, <<>>, <<"/", "a">>}

\* the patterns setincludepattern is called with: None, and one that
\* matches the paths of the files with a 1 in the name
IncludePatterns == {NoPattern, <<"1">>}

InitFilter ==
    /\ listing \in FilterListings
    /\ Constructed(NoneInt, NoneInt)
    /\ SplitIdle
    /\ NoMain

\* setfileexcludes(filenames, extend), the list extended by names it
\* does not hold yet
Setfileexcludes ==
    /\ NotYetRun
    /\ \E filenames \in ExcludeLists, extend \in BOOLEAN :
          /\ extend =>
                \A k \in 1..Len(Excludes(fileexcludes, FILEEXCLUDES)) :
                   Excludes(fileexcludes, FILEEXCLUDES)[k] # filenames[1]
          /\ \E after \in {setfileexcludes(fileexcludes, FILEEXCLUDES,
                                           filenames, extend)} :
                /\ fileexcludes' = after.fileexcludes
                /\ FILEEXCLUDES' = after.FILEEXCLUDES
    /\ raised' = "none"
    /\ UNCHANGED <<start, end, lastfilebarename, nextseqnum, seqnumwidth,
                   missing, dircontents, missingfiles, listing, pc, pairidx,
                   returned, splitvars, mainvars, excludepat, includepat, splitpat,
                   template, other, disk, call>>

Setexcludepattern ==
    /\ NotYetRun
    /\ \E pattern \in ExcludePatterns : excludepat' = pattern
    /\ raised' = "none"
    /\ UNCHANGED <<start, end, lastfilebarename, nextseqnum, seqnumwidth,
                   missing, dircontents, missingfiles, listing, pc, pairidx,
                   returned, splitvars, mainvars, FILEEXCLUDES, fileexcludes,
                   includepat, splitpat, template, other, disk, call>>

Setincludepattern ==
    /\ NotYetRun
    /\ \E pattern \in IncludePatterns : includepat' = pattern
    /\ raised' = "none"
    /\ UNCHANGED <<start, end, lastfilebarename, nextseqnum, seqnumwidth,
                   missing, dircontents, missingfiles, listing, pc, pairidx,
                   returned, splitvars, mainvars, FILEEXCLUDES, fileexcludes,
                   excludepat, splitpat, template, other, disk, call>>

\* FileSequenceChecker() once more: a second instance
ConstructOther ==
    /\ pc = "idle"
    /\ other = NoInstance
    /\ other' = NewInstance
    /\ call' = [op |-> "__init__", start |-> NoneArg, end |-> NoneArg,
                recursive |-> BoolArg(FALSE)]
    /\ raised' = "none"
    /\ UNCHANGED <<start, end, lastfilebarename, nextseqnum, seqnumwidth,
                   missing, dircontents, missingfiles, listing, pc, pairidx,
                   returned, splitvars, mainvars, FILEEXCLUDES, fileexcludes,
                   excludepat, includepat, splitpat, template, disk>>

\* between two calls the directory is removed, replaced by a file, or
\* put back
DiskChanges ==
    /\ pc = "idle"
    /\ \E d \in Paths \ {disk} : disk' = d
    /\ UNCHANGED <<start, end, lastfilebarename, nextseqnum, seqnumwidth,
                   missing, dircontents, missingfiles, listing, pc, pairidx,
                   returned, splitvars, mainvars, configvars, call, raised>>

NextFilter ==
    \/ Setfileexcludes
    \/ Setexcludepattern
    \/ Setincludepattern
    \/ ConstructOther
    \/ DiskChanges
    \/ ProcessdirCall
    \/ ComparefileCall
    \/ ProcessdirReturn

SpecFilter == InitFilter /\ [][NextFilter]_vars

----------------------------------------------------------------------------
(* Specification of the custom grammar: setsplitpattern and processdir *)

\* patterns setsplitpattern is called with, besides None, the empty
\* pattern and the two custom patterns
NoGroupPattern ==
    <<".", "*", "$">>

LoneQuotePattern ==
    <<"\"">>

NoSeqnumPattern ==
    <<"(", "?", "P", "<", "f", "i", "l", "e", "n", "a", "m", "e", ">",
      "\\", "D", "+", ")">>

NoFilenamePattern ==
    <<"(", "?", "P", "<", "s", "e", "q", "n", "u", "m", ">", "\\", "d",
      "+", ")">>

QuotedNormalGrammar ==
    <<"'", "(", "?", "P", "<", "f", "i", "l", "e", "n", "a", "m", "e", ">",
      "\\", "D", "+", ")", "(", "?", "P", "<", "s", "e", "q", "n", "u",
      "m", ">", "\\", "d", "+", ")", "'">>

GivenPatterns ==
    {NoPattern, <<>>, NoGroupPattern, LoneQuotePattern, NoSeqnumPattern,
     NoFilenamePattern, NormalGrammar, QuotedNormalGrammar, AnyIndexGrammar}

\* a template that leaves the seqnum group out
NoSeqnumTemplate ==
    <<"%", "(", "f", "i", "l", "e", "n", "a", "m", "e", ")", "s">>

GivenTemplates ==
    {NoPattern, <<>>, NormalTemplate, ReverseTemplate, NoSeqnumTemplate}

\* the files the directories of this specification are filled from
GrammarPool ==
    << <<"a", "b", "1", ".", "x">>,
       <<"a", "b", "3", ".", "x">>,
       <<"a", "1", ".", "x">>,
       <<"a", "3", ".", "x">> >>

\* the files of the grammar pool at the places picked, in the pool's order
GrammarPicked(places) ==
    LET upto[k \in 0..Len(GrammarPool)] ==
            IF k = 0 THEN <<>>
            ELSE IF k \in places THEN Append(upto[k - 1], GrammarPool[k])
            ELSE upto[k - 1]
    IN  upto[Len(GrammarPool)]

GrammarListings ==
    {GrammarPicked(places) : places \in SUBSET (1..Len(GrammarPool)) \ {{}}}

InitGrammar ==
    /\ listing \in GrammarListings
    /\ Constructed(NoneInt, NoneInt)
    /\ SplitIdle
    /\ NoMain

\* setsplitpattern(pattern, template); self.template is assigned nowhere
Setsplitpattern ==
    /\ NotYetRun
    /\ \E pattern \in GivenPatterns, tp \in GivenTemplates :
          /\ call' = [op |-> "setsplitpattern", pattern |-> pattern,
                      template |-> tp]
          /\ \E after \in {setsplitpattern(splitpat, pattern, tp)} :
                /\ splitpat' = after.splitpat
                /\ raised' = after.raised
    /\ UNCHANGED <<start, end, lastfilebarename, nextseqnum, seqnumwidth,
                   missing, dircontents, missingfiles, listing, pc, pairidx,
                   returned, splitvars, mainvars, FILEEXCLUDES, fileexcludes,
                   excludepat, includepat, template, other, disk>>

NextGrammar ==
    \/ Setsplitpattern
    \/ ProcessdirCall
    \/ ComparefileCall
    \/ ProcessdirReturn

SpecGrammar == InitGrammar /\ [][NextGrammar]_vars

----------------------------------------------------------------------------
(* Specification of the constructor: FileSequenceChecker(start, end,     *)
(* recursive) called with integers, texts and other values               *)

MaxArg == 2         \* largest number given as start or end

\* the numbers from -1 to MaxArg as texts, one with a blank in front, and
\* a text that is no number
ArgTexts ==
    {ToStr(n) : n \in 0..MaxArg}
    \cup {<<"-">> \o ToStr(1), <<" ">> \o ToStr(1), <<"a">>}

\* the values given as start and as end
RangeArgs ==
    {NoneArg} \cup {IntArg(n) : n \in -1..MaxArg}
    \cup {StrArg(text) : text \in ArgTexts}

\* the values given as recursive
RecursiveArgs == {BoolArg(TRUE), BoolArg(FALSE), IntArg(2), NoneArg, DictArg}

InitConstruct ==
    /\ listing = <<>>
    /\ Constructed(NoneInt, NoneInt)
    /\ SplitIdle
    /\ NoMain

\* FileSequenceChecker(start, end, recursive): an instance is made unless
\* __init__ raises
Construct ==
    /\ other = NoInstance
    /\ \E startarg \in RangeArgs, endarg \in RangeArgs,
          recursivearg \in RecursiveArgs :
          /\ call' = [op |-> "__init__", start |-> startarg, end |-> endarg,
                      recursive |-> recursivearg]
          /\ \E made \in {__init__(startarg, endarg, recursivearg)} :
                /\ raised' = made.raised
                /\ other' = IF made.raised = "none" THEN made.instance
                            ELSE NoInstance
    /\ UNCHANGED <<start, end, lastfilebarename, nextseqnum, seqnumwidth,
                   missing, dircontents, missingfiles, listing, pc, pairidx,
                   returned, splitvars, mainvars, FILEEXCLUDES, fileexcludes,
                   excludepat, includepat, splitpat, template, disk>>

NextConstruct == Construct

SpecConstruct == InitConstruct /\ [][NextConstruct]_vars

----------------------------------------------------------------------------
(* Specification of main: one checker after another, one for each path   *)
(* of the command line, and the report printed at the end                *)

\* __getattr__("totaldirs"): len(self.missing.keys())
totaldirs(report) == Cardinality(DOMAIN report)

\* the sum of the lengths of the lists of the directories in D
RECURSIVE SumOfLengths(_, _)
SumOfLengths(report, D) ==
    IF D = {} THEN 0
    ELSE LET d == CHOOSE x \in D : TRUE
         IN  Len(report[d]) + SumOfLengths(report, D \ {d})

\* __getattr__("totalfiles") and __len__: the lengths of the lists added up
totalfiles(report) == SumOfLengths(report, DOMAIN report)

\* the directories the paths of the command line name
MainDirs ==
    { << <<"a", "b", "1", ".", "x">>, <<"a", "b", "3", ".", "x">> >>,
      << <<"a", "b", "1", ".", "x">>, <<"a", "b", "2", ".", "x">> >>,
      << <<"v", "1", "_", "a", ".", "x">>, <<"v", "3", "_", "a", ".", "x">> >>,
      << <<"a", "b", "1", ".", "x">>, <<"a", "b", "6", ".", "x">> >> }

\* the command lines: one path or more, at most MaxCalls
MainPaths == UNION {[1..n -> MainDirs] : n \in 1..MaxCalls}

InitMain ==
    /\ listing = <<>>
    /\ Constructed(NoneInt, NoneInt)
    /\ SplitIdle
    /\ paths \in MainPaths
    /\ pathidx = 0
    /\ printed = NoPrint

\* `for inpath in paths: fsc = FileSequenceChecker(rangestart, rangeend,
\* recurse)`: a new instance for the next path
MainConstruct ==
    /\ pc = "idle"
    /\ printed = NoPrint
    /\ pathidx < Len(paths)
    /\ Len(returned) = pathidx
    /\ pathidx' = pathidx + 1
    /\ listing' = paths[pathidx + 1]
    /\ Assign([reset(Self) EXCEPT !.missing = EmptyDict])
    /\ dircontents' = EmptyDict
    /\ fileexcludes' = ClassList
    /\ excludepat' = NoPattern
    /\ includepat' = NoPattern
    /\ splitpat' = DefaultSplitpat
    /\ template' = NoPattern
    /\ UNCHANGED <<start, end, pc, pairidx, returned, splitvars, FILEEXCLUDES,
                   other, disk, call, raised, paths, printed>>

\* missing = fsc.processdir(inpath, strict, verbose), up to the pair loop
MainProcessdir ==
    /\ Len(returned) < pathidx
    /\ ProcessdirCall

\* after the loop: the dictionary the last processdir call returned is
\* printed, with fsc.totalfiles and fsc.totaldirs of the last instance
MainPrint ==
    /\ pc = "idle"
    /\ printed = NoPrint
    /\ pathidx = Len(paths)
    /\ Len(returned) = pathidx
    /\ printed' = [done |-> TRUE,
                   lines |-> IF Dir \in DOMAIN returned[Len(returned)]
                             THEN returned[Len(returned)][Dir] ELSE <<>>,
                   totalfiles |-> totalfiles(missing),
                   totaldirs |-> totaldirs(missing)]
    /\ UNCHANGED <<start, end, lastfilebarename, nextseqnum, seqnumwidth,
                   missing, dircontents, missingfiles, listing, pc, pairidx,
                   returned, splitvars, configvars, disk, call, raised,
                   paths, pathidx>>

NextMain ==
    \/ MainConstruct
    \/ MainProcessdir
    \/ ComparefileCall
    \/ ProcessdirReturn
    \/ MainPrint

SpecMain == InitMain /\ [][NextMain]_vars

----------------------------------------------------------------------------
(* What a report says about a directory *)

\* the records of the directory as preparedircontents sorted them
Records == IF Dir \in DOMAIN dircontents THEN dircontents[Dir] ELSE <<>>

\* the list a report holds for the directory (none: nothing missing)
ListOf(report) == IF Dir \in DOMAIN report THEN report[Dir] ELSE <<>>

\* the report of the first processdir call on the fresh instance
FirstList == ListOf(returned[1])

\* the bare names of the directory: one run each
BareNames == {Records[k].filename : k \in 1..Len(Records)}

\* the places of the records of the run with bare name B
RunPlaces(B) == {k \in 1..Len(Records) : Records[k].filename = B}

\* the sequence number of the record at place k
IndexAt(k) == ToInt(Records[k].seqnum)

\* the integers a missing sequence number of the directory can be
Indices == 0..Max({0} \cup {IndexAt(k) : k \in 1..Len(Records)})

\* i lies strictly between the sequence numbers of the records at k-1 and k,
\* two consecutive records of the run B
IsGapBefore(B, k, i) ==
    /\ k \in RunPlaces(B)
    /\ k - 1 \in RunPlaces(B)
    /\ IndexAt(k - 1) < i
    /\ i < IndexAt(k)

\* the missing sequence numbers of the run B
Gaps(B) == {i \in Indices : \E k \in RunPlaces(B) : IsGapBefore(B, k, i)}

\* the secondary name of a record ('' when the pattern has none)
SecondaryName(r) == IF "filename2" \in DOMAIN r THEN r.filename2 ELSE <<>>

\* a name put together from the parts of record r around the numeral num
AssembledName(r, num) ==
    IF r.order = "normal"
    THEN r.filename \o num \o SecondaryName(r) \o r.fileext
    ELSE SecondaryName(r) \o num \o r.filename \o r.fileext

\* the digit counts of the sequence numbers in the directory
Widths == {Len(Records[k].seqnum) : k \in 1..Len(Records)}

\* entry names the sequence number i of the run B, whatever its padding
Denotes(entry, B, i) ==
    \E k \in RunPlaces(B), w \in Widths :
        entry = AssembledName(Records[k], ZeroPad(w, i))

\* the list reports the sequence number i of the run B
ReportsIndex(list, B, i) == \E n \in 1..Len(list) : Denotes(list[n], B, i)

\* the members of a set of integers, smallest first
RECURSIVE Ascending(_)
Ascending(S) == IF S = {} THEN <<>> ELSE <<Min(S)>> \o Ascending(S \ {Min(S)})

\* the first call on the fresh instance has returned
FirstReturned == Len(returned) >= 1

\* no range was configured
NoRange == ~IsInt(start) /\ ~IsInt(end)

----------------------------------------------------------------------------
(* C1 *)

\* C1: with no range configured, the first processdir call on a fresh
\* checker reports, for every bare-name run of the directory, every integer
\* strictly between two consecutive indices of the run, whatever other runs
\* the directory holds.
C1_EveryGapReported ==
    (FirstReturned /\ NoRange) =>
        \A B \in BareNames : \A i \in Gaps(B) : ReportsIndex(FirstList, B, i)

----------------------------------------------------------------------------
(* C2 *)

\* every report there is: the one being built and the ones returned
Reports == {missing} \cup {returned[k] : k \in 1..Len(returned)}

----------------------------------------------------------------------------
(* C3 *)

\* C3: for a fresh checker built with start=0 and end=E and a directory
\* holding one run whose first index is below E, processdir reports exactly
\* the run's gap indices i <= E, in ascending order.
C3_ExactlyGapsUpToEnd ==
    (/\ FirstReturned
     /\ start = 0 /\ IsInt(end)
     /\ Cardinality(BareNames) = 1
     /\ IndexAt(1) < end) =>
        LET B == CHOOSE b \in BareNames : TRUE
            expected == Ascending({i \in Gaps(B) : i <= end})
        IN  /\ Len(FirstList) = Len(expected)
            /\ \A n \in 1..Len(expected) : Denotes(FirstList[n], B, expected[n])

----------------------------------------------------------------------------
(* C4 *)

\* C4: every reported missing name for a gap index i is assembled from the
\* parts of the record that follows the gap, around i zero-padded to the
\* digit count of the first seen index of the run.
C4_NameFromFollowingRecord ==
    FirstReturned =>
        \A n \in 1..Len(FirstList) :
            \E B \in BareNames, k \in 1..Len(Records), i \in Indices :
                /\ IsGapBefore(B, k, i)
                /\ FirstList[n] =
                      AssembledName(Records[k],
                          ZeroPad(Len(Records[Min(RunPlaces(B))].seqnum), i))

----------------------------------------------------------------------------
(* C5 *)

\* C5: a second processdir call on the same instance for the unchanged
\* directory returns the same report as the first.
C5_SecondCallSameReport ==
    Len(returned) >= 2 => returned[2] = returned[1]

----------------------------------------------------------------------------
(* C6 *)

\* the indices of the run B go up by one from each record to the next
GapFree(B) ==
    \A k \in RunPlaces(B) :
        k - 1 \in RunPlaces(B) => IndexAt(k) = IndexAt(k - 1) + 1

\* C6: the first call on a fresh checker reports no missing file for a
\* run whose indices are strictly increasing without gaps, and returns the
\* empty map when no run has a gap.
C6_NothingMissing ==
    FirstReturned =>
        /\ \A B \in BareNames :
              GapFree(B) => \A i \in Indices : ~ReportsIndex(FirstList, B, i)
        /\ (\A B \in BareNames : Gaps(B) = {}) => returned[1] = EmptyDict

\* a run of several records without a gap was walked and the map is empty
C6_Witness ==
    /\ FirstReturned
    /\ \E B \in BareNames : GapFree(B) /\ Cardinality(RunPlaces(B)) >= 2
    /\ returned[1] = EmptyDict

----------------------------------------------------------------------------
(* C7 *)

\* the (run, index) pairs an entry can stand for
Meanings(entry) ==
    {m \in BareNames \X Indices : Denotes(entry, m[1], m[2])}

\* the entries of the list that stand for an index of the run B
EntriesOf(list, B) ==
    SelectSeq(list, LAMBDA entry : \E i \in Indices : Denotes(entry, B, i))

\* C7: after one processdir call on a fresh checker the missing list is in
\* discovery order: runs in ascending bare-name order, within a run the
\* indices strictly ascending and none repeated; a run with the indices
\* {1,3,6} yields exactly the entries for 2, 4, 5 in that order.
C7_DiscoveryOrder ==
    FirstReturned =>
        /\ \A n \in 1..Len(FirstList) : Meanings(FirstList[n]) # {}
        /\ \A m, n \in 1..Len(FirstList) :
              m < n =>
                \A a \in Meanings(FirstList[m]), b \in Meanings(FirstList[n]) :
                    \/ StrLess(a[1], b[1])
                    \/ a[1] = b[1] /\ a[2] < b[2]
        /\ NoRange =>
              \A B \in BareNames :
                  {IndexAt(k) : k \in RunPlaces(B)} = {1, 3, 6} =>
                      LET entries == EntriesOf(FirstList, B)
                      IN  /\ Len(entries) = 3
                          /\ Denotes(entries[1], B, 2)
                          /\ Denotes(entries[2], B, 4)
                          /\ Denotes(entries[3], B, 5)

----------------------------------------------------------------------------
(* C8 *)

\* the files of the listing, in no order
FilesOf(l) == {l[k] : k \in 1..Len(l)}

\* C8: for the directory 1 Write30.png, 3 Write30.png, 6 Write30.png,
\* v13_Write.png, v14_Write.png, r101_Write30.png ... r104_Write30.png a
\* fresh checker with no range returns exactly the list 2 Write30.png,
\* 4 Write30.png, 5 Write30.png for that directory.
C8_ReverseOrderFixture ==
    (FirstReturned /\ NoRange /\ FilesOf(listing) = FilesOf(ReverseOrderDir)) =>
        returned[1] =
            [d \in {Dir} |->
                << <<"2", " ", "W", "r", "i", "t", "e", "3", "0", ".", "p", "n", "g">>,
                   <<"4", " ", "W", "r", "i", "t", "e", "3", "0", ".", "p", "n", "g">>,
                   <<"5", " ", "W", "r", "i", "t", "e", "3", "0", ".", "p", "n", "g">> >>]

\* the fixture directory was processed with no range and something is missing
C8_Witness ==
    /\ FirstReturned /\ NoRange
    /\ FilesOf(listing) = FilesOf(ReverseOrderDir)
    /\ Len(FirstList) = 3

----------------------------------------------------------------------------
(* C9 *)

\* C9: for every file name the default patterns accept, putting the
\* returned parts together in the recorded order, followed by the
\* extension, gives back the file name.
C9_RoundTrip ==
    (splitdone /\ parts # None) => AssembledName(parts, parts.seqnum) = name

----------------------------------------------------------------------------
(* C10 *)

\* the stem splitfilename matches the patterns against
StemOf(filename) ==
    LET ext == splitext(filename)
    IN  IF HasDigit(ext[1]) THEN ext[1] ELSE ext[1] \o ext[2]

\* the length of the run of digits a string begins with
LeadingDigits(s) ==
    Max({k \in 0..Len(s) : AllDigits(Slice(s, 1, k))})

\* C10: for every stem that begins with one or more digits followed by at
\* least one further character, splitfilename returns order reverse, the
\* whole leading digit run as the index and the rest of the stem as the
\* bare name.
C10_ReverseLeading ==
    LET stem == StemOf(name)
        k == LeadingDigits(stem)
    IN  (splitdone /\ k >= 1 /\ k < Len(stem)) =>
            /\ parts # None
            /\ parts.order = "reverse"
            /\ parts.seqnum = Slice(stem, 1, k)
            /\ parts.filename = Slice(stem, k + 1, Len(stem))

----------------------------------------------------------------------------
(* C11 *)

\* C11: splitfilename never returns a record whose bare name or index is
\* the empty string: a match that captures an empty bare name or an empty
\* index counts as no match.
C11_NoEmptyBareNameOrIndex ==
    (splitdone /\ parts # None) =>
        parts.filename # <<>> /\ parts.seqnum # <<>>

----------------------------------------------------------------------------
(* C12 *)

\* the files of the listing
Listed == {listing[k] : k \in 1..Len(listing)}

\* the static exclude list in force
StaticExcludes ==
    {Excludes(fileexcludes, FILEEXCLUDES)[k] :
        k \in 1..Len(Excludes(fileexcludes, FILEEXCLUDES))}

\* the file belongs into the record list: its name is not in the static
\* exclude list, the exclude pattern, when set, does not match its path,
\* the include pattern, when set, matches its path, and it splits
BelongsInRecords(f) ==
    /\ f \notin StaticExcludes
    /\ IsSet(excludepat) => ~Contains(filepath(f), excludepat)
    /\ IsSet(includepat) => Contains(filepath(f), includepat)
    /\ splitfilenameWith(splitpat, f) # None

\* the file is matched by the include and by the exclude pattern
MatchedByBoth(f) ==
    /\ IsSet(excludepat) /\ Contains(filepath(f), excludepat)
    /\ IsSet(includepat) /\ Contains(filepath(f), includepat)

\* C12: the record list preparedircontents stores for the directory holds
\* the record of a file if and only if the file is not in the static
\* exclude list, the exclude pattern (when set) does not match its path,
\* the include pattern (when set) matches its path, and splitfilename
\* yields a record; a file matched by both patterns is not in the list.
C12_RecordsAreTheFilteredFiles ==
    pc = "pairs" =>
        /\ {Records[k] : k \in 1..Len(Records)} =
              {splitfilenameWith(splitpat, f) :
                 f \in {g \in Listed : BelongsInRecords(g)}}
        /\ Len(Records) = Cardinality({g \in Listed : BelongsInRecords(g)})
        /\ \A f \in Listed :
              MatchedByBoth(f) =>
                 \A k \in 1..Len(Records) :
                    Records[k] # splitfilenameWith(splitpat, f)

\* both patterns are set, a file matched by both was left out and a file
\* matched by the include pattern alone was taken
C12_Witness ==
    /\ pc = "pairs"
    /\ \E f \in Listed :
          /\ MatchedByBoth(f)
          /\ splitfilenameWith(splitpat, f) # None
    /\ \E f \in Listed :
          /\ ~MatchedByBoth(f)
          /\ BelongsInRecords(f)
          /\ \E k \in 1..Len(Records) :
                Records[k] = splitfilenameWith(splitpat, f)

----------------------------------------------------------------------------
(* C13 *)

\* the argument is a number: an integer, or a text int() converts
IsNumberGiven(x) ==
    \/ x.type = "int"
    \/ x.type = "str" /\ IsIntText(strip(x.text))

\* the number the argument stands for
NumberGiven(x) == IF x.type = "int" THEN x.value ELSE IntOfText(strip(x.text))

\* the arguments the constructor has to reject
BadArguments(c) ==
    \/ IsNumberGiven(c.start) /\ NumberGiven(c.start) < 0
    \/ IsNumberGiven(c.end) /\ NumberGiven(c.end) < 0
    \/ /\ IsNumberGiven(c.start) /\ IsNumberGiven(c.end)
       /\ NumberGiven(c.start) >= NumberGiven(c.end)
    \/ c.recursive.type \notin {"bool", "int"}

\* C13: the constructor raises ValueError and makes no checker whenever
\* start or end is negative, or start >= end with both given, or recursive
\* is not a boolean (an int passes for one), with start and end given as
\* integers or numeric text.
C13_BadArgumentsRaise ==
    (call.op = "__init__" /\ BadArguments(call)) =>
        raised = "ValueError" /\ other = NoInstance

----------------------------------------------------------------------------
(* C14 *)

----------------------------------------------------------------------------
(* C15 *)

\* C15: no operation on the checker changes the exclude list, grammar,
\* comparator state or report of the second instance, whether that was
\* made before the operation or after it: the second instance has what
\* the constructor gives.
C15_OtherInstanceUntouched ==
    other.made =>
        /\ Excludes(other.fileexcludes, FILEEXCLUDES) = PlatformExcludes
        /\ other.excludepat = NoPattern
        /\ other.includepat = NoPattern
        /\ other.splitpat = DefaultSplitpat
        /\ other.lastfilebarename = <<>>
        /\ other.nextseqnum = -1
        /\ other.seqnumwidth = -1
        /\ other.missing = EmptyDict

----------------------------------------------------------------------------
(* C16 *)

\* C16: every directory key of the missing report maps to a non-empty
\* list, so totaldirs is the number of directories with a missing file,
\* totalfiles is the sum of the list lengths, and totalfiles is 0 exactly
\* when totaldirs is 0.
C16_KeysHaveMissingFiles ==
    /\ \A d \in DOMAIN missing : missing[d] # <<>>
    /\ totaldirs(missing) =
          Cardinality({d \in DOMAIN missing : Len(missing[d]) >= 1})
    /\ totalfiles(missing) >= totaldirs(missing)
    /\ totalfiles(missing) = 0 <=> totaldirs(missing) = 0

\* after two processdir calls the report has a key and several files
C16_Witness ==
    /\ Len(returned) = 2
    /\ totaldirs(missing) = 1
    /\ totalfiles(missing) >= 2

----------------------------------------------------------------------------
(* C17 *)

\* a custom grammar setsplitpattern has to reject: an empty pattern, a
\* pattern without the filename group or without the seqnum group, a
\* pattern without a template, a template that leaves out a named group
IsInvalidGrammar(pattern, tp) ==
    /\ pattern # NoPattern
    /\ \/ pattern = <<>>
       \/ ~Contains(pattern, NamedFilename)
       \/ ~Contains(pattern, NamedSeqnum)
       \/ tp = NoPattern
       \/ tp = <<>>
       \/ \E key \in GroupNames(pattern) : ~HasWord(tp, key)

\* C17: setsplitpattern with an invalid custom grammar raises ValueError
\* and leaves the configured grammar unchanged.
C17_InvalidGrammarRejected ==
    [][(Setsplitpattern /\ IsInvalidGrammar(call'.pattern, call'.template)) =>
          /\ raised' = "ValueError"
          /\ splitpat' = splitpat]_vars

----------------------------------------------------------------------------
(* C18 *)

\* the replacement tokens of a template
FilenameToken == <<"%", "(">> \o WordFilename \o <<")", "s">>

SeqnumToken == <<"%", "(">> \o WordSeqnum \o <<")", "s">>

\* the template with the bare name and the numeral put in for the tokens
RECURSIVE Format(_, _, _)
Format(tp, filename, seqnum) ==
    IF tp = <<>> THEN <<>>
    ELSE IF StartsWithAt(tp, 1, FilenameToken)
         THEN filename \o Format(Slice(tp, Len(FilenameToken) + 1, Len(tp)),
                                 filename, seqnum)
    ELSE IF StartsWithAt(tp, 1, SeqnumToken)
         THEN seqnum \o Format(Slice(tp, Len(SeqnumToken) + 1, Len(tp)),
                               filename, seqnum)
    ELSE <<Head(tp)>> \o Format(Tail(tp), filename, seqnum)

\* the last setsplitpattern call set a custom grammar with its template
CustomGrammarSet ==
    /\ call.op = "setsplitpattern"
    /\ call.pattern # NoPattern
    /\ ~IsInvalidGrammar(call.pattern, call.template)
    /\ splitpat # DefaultSplitpat

\* the entry is a name the template gives for a record of the directory
FollowsTemplate(entry) ==
    \E k \in 1..Len(Records), w \in Widths, i \in Indices :
        entry = Format(call.template, Records[k].filename, ZeroPad(w, i))
                   \o Records[k].fileext

\* C18: with a custom grammar set together with a template, every name
\* the first processdir call puts into the report is assembled as the
\* template describes.
C18_NamesFollowTemplate ==
    (CustomGrammarSet /\ pc = "pairs" /\ Len(returned) = 0) =>
        \A n \in 1..Len(ListOf(missing)) : FollowsTemplate(ListOf(missing)[n])

----------------------------------------------------------------------------
(* C19 *)

\* a file of the directory splits into a record whose index is no numeral
NonNumeralIndexListed ==
    \E f \in Listed :
        /\ splitfilenameWith(splitpat, f) \notin {None, OrderUndefined}
        /\ ~IsNumeral(splitfilenameWith(splitpat, f).seqnum)

\* C19: a record whose index matched the grammar but is no numeral does
\* not make processdir raise: the walk goes on to the pair loop with the
\* comparator state reset.
C19_NonNumeralIndexNotFatal ==
    [][(ProcessdirCall /\ disk = "dir" /\ NonNumeralIndexListed) =>
          /\ raised' = "none"
          /\ pc' = "pairs"]_vars

----------------------------------------------------------------------------
(* C20 *)

\* the record comparefile is given next as the current one
CurrentRecord == pairs(dircontents[Dir])[pairidx][1]

\* comparefile is about to be called on a record whose index is below a
\* non-zero start
BelowStartCall ==
    /\ pc = "pairs"
    /\ pairidx <= Len(pairs(dircontents[Dir]))
    /\ IsInt(start) /\ start # 0
    /\ ToInt(CurrentRecord.seqnum) < start

\* C20: with a non-zero start configured, comparefile on a current record
\* whose index is below start leaves lastfilebarename, nextseqnum,
\* seqnumwidth and the missing report unchanged, and the walk goes on with
\* the next pair.
C20_BelowStartLeavesState ==
    [][(BelowStartCall /\ ComparefileCall) =>
          /\ UNCHANGED <<lastfilebarename, nextseqnum, seqnumwidth, missing>>
          /\ pc' = "pairs"
          /\ pairidx' = pairidx + 1]_vars

\* comparefile has returned for a record below start while a run was
\* being tracked
C20_Witness ==
    /\ pc = "pairs"
    /\ pairidx >= 2
    /\ IsInt(start) /\ start # 0
    /\ ToInt(pairs(dircontents[Dir])[pairidx - 1][1].seqnum) < start
    /\ lastfilebarename # <<>>
    /\ nextseqnum > 0

----------------------------------------------------------------------------
(* C21 *)

\* the comparator state is as reset() leaves it
IsIdle ==
    /\ lastfilebarename = <<>>
    /\ nextseqnum = -1
    /\ seqnumwidth = -1

\* every record of the directory has a bare name
BareNamesNotEmpty == \A k \in 1..Len(Records) : Records[k].filename # <<>>

\* C21: the comparator state is in its reset state whenever the pair walk
\* of a directory begins, also in a later processdir call on the instance
\* (shown for directories whose records all have a bare name).
C21_IdleWhenWalkBegins ==
    (pc = "pairs" /\ pairidx = 1 /\ BareNamesNotEmpty) => IsIdle

----------------------------------------------------------------------------
(* C22 *)

\* the record comparefile is given next as the following one
NextRecord == pairs(dircontents[Dir])[pairidx][2]

\* comparefile is about to be called
AtCall == pc = "pairs" /\ pairidx <= Len(pairs(dircontents[Dir]))

\* the configured start and end as comparefile reads them
StartOrZero == IF IsInt(start) THEN start ELSE 0

EndOrZero == IF IsInt(end) THEN end ELSE 0

\* the current record is not skipped for its index being below start
NotBelowStart ==
    StartOrZero = 0 \/ ToInt(CurrentRecord.seqnum) >= StartOrZero

\* C22: when comparefile processes a current record, not below start,
\* whose next record has another bare name, the comparator state is reset
\* when it returns, whichever branch handled the record (shown for
\* directories whose records all have a bare name).
C22_RunBoundaryResets ==
    [][(AtCall /\ NotBelowStart /\ BareNamesNotEmpty
          /\ NextRecord.filename # CurrentRecord.filename
          /\ ComparefileCall)
        => (/\ lastfilebarename' = <<>>
            /\ nextseqnum' = -1
            /\ seqnumwidth' = -1)]_vars

----------------------------------------------------------------------------
(* C23 *)

\* the current record continues the run that is tracked
InRunCall ==
    /\ AtCall
    /\ lastfilebarename # <<>>
    /\ lastfilebarename = CurrentRecord.filename

\* C23: with a range end configured, when comparefile handles a record of
\* the tracked run whose index exceeds the end, the comparator state is
\* reset when it returns, with or without a gap before the record.
C23_PastEndResets ==
    [][(InRunCall /\ EndOrZero # 0
          /\ ToInt(CurrentRecord.seqnum) > EndOrZero
          /\ ComparefileCall)
        => (/\ lastfilebarename' = <<>>
            /\ nextseqnum' = -1
            /\ seqnumwidth' = -1)]_vars

----------------------------------------------------------------------------
(* C24 *)

\* what the branch for a record of the tracked run leaves, start not
\* looked at
AsInRun ==
    ContinueSequence(Self, Dir, CurrentRecord, NextRecord,
                     SecondaryName(CurrentRecord), EndOrZero,
                     ToInt(CurrentRecord.seqnum))

\* C24: once a run has begun a record's index is not compared with start:
\* a record of the tracked run is processed as such even when its index
\* is below start.
C24_StartNotCheckedInRun ==
    [][(InRunCall /\ ComparefileCall)
        => (/\ lastfilebarename' = AsInRun.lastfilebarename
            /\ nextseqnum' = AsInRun.nextseqnum
            /\ missing' = AsInRun.missing)]_vars

----------------------------------------------------------------------------
(* C25 *)

\* the record before the current one ends a run that reached the end of
\* the range, and the current record begins another run
AfterRunCutOff ==
    /\ AtCall
    /\ pairidx >= 2
    /\ EndOrZero # 0
    /\ Records[pairidx - 1].filename # CurrentRecord.filename
    /\ ToInt(Records[pairidx - 1].seqnum) >= EndOrZero

\* every pair of the directory was passed to comparefile
WalkDone == pc = "idle" /\ pairidx = Len(pairs(Records)) + 1

\* C25: reaching the range end inside a run never stops the walk:
\* comparefile returns True on every call and the loop goes to the next
\* pair, a run that follows a run cut off by end is begun from the reset
\* state, and every walk that begins passes all its pairs and returns.
C25_EndNeverStopsWalk ==
    /\ [][ComparefileCall => (pc' = "pairs" /\ pairidx' = pairidx + 1)]_vars
    /\ [](AfterRunCutOff => IsIdle)
    /\ (pc = "pairs") ~> WalkDone

\* the first call has returned: a run with an index past the end is
\* followed by another run, and a gap of that run is in the report
C25_Witness ==
    /\ pc = "idle"
    /\ Len(returned) = 1
    /\ EndOrZero # 0
    /\ \E B1 \in BareNames, B2 \in BareNames :
          /\ Max(RunPlaces(B1)) < Min(RunPlaces(B2))
          /\ \E k \in RunPlaces(B1) : IndexAt(k) > EndOrZero
          /\ \E i \in Gaps(B2) : ReportsIndex(FirstList, B2, i)

----------------------------------------------------------------------------
(* C26 *)

\* the record after the one at place k, the first after the last
CyclicSuccessor(k) == Records[(k % Len(Records)) + 1]

\* comparefile is called on the record at place pairidx and the record
\* after it, and the walk begins at the first record without an exception
PassedInOrder ==
    /\ [][ProcessdirCall => (raised' = "none" /\ pairidx' = 1)]_vars
    /\ [][ComparefileCall =>
            (/\ CurrentRecord = Records[pairidx]
             /\ NextRecord = CyclicSuccessor(pairidx)
             /\ pairidx' = pairidx + 1)]_vars

\* C26 as stated: for every directory with at least one record each record
\* of the sorted list is passed to comparefile as the current one exactly
\* once, in sorted order, with its cyclic successor as the next one.
C26_EveryRecordPassedOnce ==
    /\ PassedInOrder
    /\ [][ProcessdirReturn =>
            (Len(Records) >= 1 => pairidx = Len(Records) + 1)]_vars

\* C26 amended: the same for every directory with at least two records;
\* for a directory with one record comparefile is not called at all, and
\* processdir returns without an exception.
C26_RecordsPassedInOrder ==
    /\ PassedInOrder
    /\ [][ProcessdirReturn =>
            (/\ Len(Records) >= 2 => pairidx = Len(Records) + 1
             /\ Len(Records) < 2 => pairidx = 1)]_vars

\* processdir has returned for a directory of two records, after two
\* comparefile calls
C26_Witness ==
    /\ pc = "idle"
    /\ Len(returned) >= 1
    /\ raised = "none"
    /\ Len(Records) = 2
    /\ pairidx = 3

----------------------------------------------------------------------------
(* C27 *)

\* C27: in the record list of a directory the bare names are in ascending
\* order, so that the records of one bare name are contiguous, and within
\* one bare name the integer values of the indices do not decrease.
C27_RecordsSorted ==
    \A j \in 1..Len(Records), k \in 1..Len(Records) :
        j < k =>
           /\ ~StrLess(Records[k].filename, Records[j].filename)
           /\ Records[j].filename = Records[k].filename =>
                 IndexAt(j) <= IndexAt(k)

\* a directory with two bare names, one of them with two indices, was
\* listed in another order than the sorted one
C27_Witness ==
    /\ pc = "pairs"
    /\ Cardinality(BareNames) >= 2
    /\ \E j \in 1..Len(Records), k \in 1..Len(Records) :
          /\ Records[j].filename = Records[k].filename
          /\ IndexAt(j) < IndexAt(k)
    /\ splitfilename(listing[1]) # None
    /\ splitfilename(listing[1]) # Records[1]

----------------------------------------------------------------------------
(* C28 *)

\* C28: for a fresh checker and one processdir call, under any start and
\* end, every entry of the report names a bare name B of the directory and
\* an index that lies strictly between the indices of two consecutive
\* records of B's run.
C28_NoSpuriousEntries ==
    (pc = "idle" /\ Len(returned) = 1) =>
        \A n \in 1..Len(FirstList) :
            \E B \in BareNames :
                \E i \in Gaps(B) : Denotes(FirstList[n], B, i)

\* the first call, with a start and an end configured, has returned a
\* report with an entry
C28_Witness ==
    /\ FirstReturned
    /\ StartOrZero # 0
    /\ EndOrZero # 0
    /\ Len(FirstList) >= 1

----------------------------------------------------------------------------
(* C29 *)

\* the three fields of the comparator state are all set
IsTracking ==
    /\ lastfilebarename # <<>>
    /\ nextseqnum >= 1
    /\ seqnumwidth >= 1

\* C29: for records with non-empty bare names the three fields of the
\* comparator state agree after every comparefile call: all are at their
\* initial values or all are set.
C29_FieldsAgree ==
    BareNamesNotEmpty => (IsIdle \/ IsTracking)

\* comparefile has returned with a run tracked, and once more with the
\* state reset, in a directory whose records all have a bare name
C29_Witness ==
    /\ pc = "pairs"
    /\ pairidx >= 3
    /\ BareNamesNotEmpty
    /\ IsIdle
    /\ Dir \in DOMAIN missing

----------------------------------------------------------------------------
(* C30: main reports the missing files of every path it was given *)

RECURSIVE SumOfReturned(_)
SumOfReturned(k) ==
    IF k = 0 THEN 0 ELSE totalfiles(returned[k]) + SumOfReturned(k - 1)

\* every file some processdir call of the run reported missing is printed
AllPrinted ==
    \A k \in 1..Len(returned) : \A d \in DOMAIN returned[k] :
        \A n \in 1..Len(returned[k][d]) :
            \E m \in 1..Len(printed.lines) :
                printed.lines[m] = returned[k][d][n]

\* C30: when main has printed its report, every missing file of every
\* path given on the command line is among the printed lines, and the
\* printed total is the number of missing files over all the paths.
C30_MainReportsEveryPath ==
    printed.done =>
        /\ AllPrinted
        /\ printed.totalfiles = SumOfReturned(Len(returned))

====
